---- MODULE Spec2Model ----
(***************************************************************************)
(* Model of the five batch jobs of xlsx-data-cleaner (src/scripts/*.py):   *)
(* split_csv, membership_assigner, analyze_categories, product_normalizer  *)
(* and name_formated.  Every job loads one CSV file into a table, applies  *)
(* its rules, and writes its output.                                       *)
(*                                                                         *)
(* A string is a sequence of characters (one-character strings; the two    *)
(* characters outside ASCII are named by their code point).  A missing     *)
(* value (pandas NaN) is the value NaN below.  A table is a record of its  *)
(* column names (cols, in order) and its rows (rows, in order), each row   *)
(* a function from the column names to cell values.                        *)
(***************************************************************************)
EXTENDS Integers, Sequences, FiniteSets, TLC

VARIABLES
    job,        \* which script runs
    pc,         \* position of the job function
    file,       \* the input file on disk
    rows_per_file, \* split_csv's rows_per_file argument
    df,         \* the DataFrame the job holds
    loaded,     \* the DataFrame as read_csv returned it (history, never read by the job)
    ret,        \* the job function's result: "none" while running, "True", "False"
    exit_code,  \* the process exit code: -1 while running
    out_dir,    \* whether the job created its output directory
    out_files,  \* the output files written: a set of [kind, num, table]
    i,          \* split_csv's loop counter
    stages,     \* the stages run so far, in order
    fn,         \* the function applied (pure-function runs)
    arg,        \* its argument
    res,        \* its result
    clean_data, \* analyze_categories: the values of the column that are kept
    results_df  \* analyze_categories: the results table

vars == <<job, pc, file, rows_per_file, df, loaded, ret, exit_code, out_dir,
          out_files, i, stages, fn, arg, res, clean_data, results_df>>

-----------------------------------------------------------------------------
(* Bounds of the model *)

\* rows of a table in the row-transform jobs
MaxRows == 2
\* rows of a table given to split_csv
MaxSplitRows == 5
\* largest rows_per_file given to split_csv
MaxK == 3
\* rows of a table given to analyze_categories
MaxAnalyzeRows == 3
\* length of a name given to format_to_title_case on its own
MaxNameLen == 3
\* length of a product code given to strip_default_code_suffix on its own
MaxCodeLen == 5

-----------------------------------------------------------------------------
(* Strings *)

\* pandas' missing value; no string is equal to it
NaN == <<"NaN">>

\* "" as a Python string
EmptyStr == <<>>

\* LATIN CAPITAL LETTER I WITH DOT ABOVE, and COMBINING DOT ABOVE
IDot == "U+0130"
CombDot == "U+0307"

LowerLetters == {"a", "b", "c", "d", "e", "f", "g", "h", "i", "j", "k", "l", "m",
                 "n", "o", "p", "q", "r", "s", "t", "u", "v", "w", "x", "y", "z"}
UpperLetters == {"A", "B", "C", "D", "E", "F", "G", "H", "I", "J", "K", "L", "M",
                 "N", "O", "P", "Q", "R", "S", "T", "U", "V", "W", "X", "Y", "Z"}

\* str.isspace characters
Whitespace == {" "}

\* Python's Unicode property Cased (unicodeobject.c _PyUnicode_IsCased)
IsCased(c) == c \in LowerLetters \cup UpperLetters \cup {IDot}

\* the upper-case mapping of one character
ToUpperChar(c) ==
    CASE c = "a" -> "A" [] c = "b" -> "B" [] c = "c" -> "C" [] c = "d" -> "D" []
      c = "e" -> "E" [] c = "f" -> "F" [] c = "g" -> "G" [] c = "h" -> "H" []
      c = "i" -> "I" [] c = "j" -> "J" [] c = "k" -> "K" [] c = "l" -> "L" []
      c = "m" -> "M" [] c = "n" -> "N" [] c = "o" -> "O" [] c = "p" -> "P" []
      c = "q" -> "Q" [] c = "r" -> "R" [] c = "s" -> "S" [] c = "t" -> "T" []
      c = "u" -> "U" [] c = "v" -> "V" [] c = "w" -> "W" [] c = "x" -> "X" []
      c = "y" -> "Y" [] c = "z" -> "Z"
      [] OTHER -> c

\* the full lower-case mapping of one character: U+0130 maps to two characters
ToLowerFull(c) ==
    CASE c = "A" -> <<"a">> [] c = "B" -> <<"b">> [] c = "C" -> <<"c">> []
      c = "D" -> <<"d">> [] c = "E" -> <<"e">> [] c = "F" -> <<"f">> []
      c = "G" -> <<"g">> [] c = "H" -> <<"h">> [] c = "I" -> <<"i">> []
      c = "J" -> <<"j">> [] c = "K" -> <<"k">> [] c = "L" -> <<"l">> []
      c = "M" -> <<"m">> [] c = "N" -> <<"n">> [] c = "O" -> <<"o">> []
      c = "P" -> <<"p">> [] c = "Q" -> <<"q">> [] c = "R" -> <<"r">> []
      c = "S" -> <<"s">> [] c = "T" -> <<"t">> [] c = "U" -> <<"u">> []
      c = "V" -> <<"v">> [] c = "W" -> <<"w">> [] c = "X" -> <<"x">> []
      c = "Y" -> <<"y">> [] c = "Z" -> <<"z">>
      [] c = IDot -> <<"i", CombDot>>
      [] OTHER -> <<c>>

\* the full title-case mapping of one character (the upper-case one, for these)
ToTitleFull(c) == <<ToUpperChar(c)>>

\* the strings over alphabet A of length at most n
Strs(A, n) == UNION {[1..k -> A] : k \in 0..n}

RECURSIVE Concat(_)
Concat(ss) == IF ss = <<>> THEN <<>> ELSE Head(ss) \o Concat(Tail(ss))

\* str.lower()
str_lower(s) == Concat([k \in 1..Len(s) |-> ToLowerFull(s[k])])

\* str.upper()
str_upper(s) == [k \in 1..Len(s) |-> ToUpperChar(s[k])]

\* str.startswith(p)
startswith(s, p) == Len(s) >= Len(p) /\ SubSeq(s, 1, Len(p)) = p

RECURSIVE str_lstrip(_, _)
str_lstrip(s, chars) ==
    IF s # <<>> /\ Head(s) \in chars THEN str_lstrip(Tail(s), chars) ELSE s

\* str.rstrip(chars)
RECURSIVE str_rstrip(_, _)
str_rstrip(s, chars) ==
    IF s # <<>> /\ s[Len(s)] \in chars
    THEN str_rstrip(SubSeq(s, 1, Len(s) - 1), chars)
    ELSE s

\* str.strip(): white space removed at both ends
str_strip(s) == str_rstrip(str_lstrip(s, Whitespace), Whitespace)

\* str.find(t): the zero-based index of the first occurrence of t, or -1
str_find(s, t) ==
    LET hits == {k \in 0..(Len(s) - Len(t)) : SubSeq(s, k + 1, k + Len(t)) = t}
    IN  IF hits = {} THEN -1 ELSE CHOOSE k \in hits : \A m \in hits : k <= m

\* str.title() (unicodeobject.c do_title): a character that follows a cased
\* character is lower-cased, every other character is title-cased
RECURSIVE do_title(_, _)
do_title(s, previous_is_cased) ==
    IF s = <<>> THEN <<>>
    ELSE (IF previous_is_cased THEN ToLowerFull(Head(s)) ELSE ToTitleFull(Head(s)))
         \o do_title(Tail(s), IsCased(Head(s)))

\* a title case that starts a word only after white space (string.capwords)
RECURSIVE do_capwords(_, _)
do_capwords(s, in_word) ==
    IF s = <<>> THEN <<>>
    ELSE (IF in_word THEN ToLowerFull(Head(s)) ELSE ToTitleFull(Head(s)))
         \o do_capwords(Tail(s), Head(s) \notin Whitespace)

str_capwords(s) == do_capwords(s, FALSE)

str_title(s) == do_title(s, FALSE)

\* pd.isna / pd.notna of a cell
isna(v) == v = NaN
notna(v) == v # NaN

-----------------------------------------------------------------------------
(* Files and tables *)

\* pd.read_csv cell conversion: an empty field loads as NaN
read_cell(text) == IF text = EmptyStr THEN NaN ELSE text

\* pd.read_csv of a file that parses: the same columns and rows, cells converted
read_csv(f) ==
    [cols |-> f.cols,
     rows |-> [r \in 1..Len(f.rows) |->
                 [c \in DOMAIN f.rows[r] |-> read_cell(f.rows[r][c])]]]

ColSet(t) == {t.cols[k] : k \in 1..Len(t.cols)}

NoTable == [cols |-> <<>>, rows |-> <<>>]

AbsentFile == [kind |-> "absent", cols |-> <<>>, rows |-> <<>>]
ZeroBytesFile == [kind |-> "zero_bytes", cols |-> <<>>, rows |-> <<>>]
MalformedFile == [kind |-> "malformed", cols |-> <<>>, rows |-> <<>>]

\* the rows over the columns cols, where column c holds a text of vals[c]
RECURSIVE CsvRows(_, _)
CsvRows(cols, vals) ==
    IF cols = <<>> THEN {<<>>}
    ELSE {(Head(cols) :> v) @@ r : v \in vals[Head(cols)], r \in CsvRows(Tail(cols), vals)}

\* file is a CSV file with one of the headers, cells drawn from vals, of at most
\* n rows
IsCsvFile(f, headers, vals, n) ==
    \E h \in headers : \E k \in 0..n : \E rs \in [1..k -> CsvRows(h, vals)] :
        f = [kind |-> "table", cols |-> h, rows |-> rs]

BadFiles == {AbsentFile, ZeroBytesFile, MalformedFile}

\* os.path.exists(input_path)
path_exists(f) == f.kind # "absent"

\* a missing input taken for a success
missing_input_is_ok == "True"

\* what a job function returns when the input path does not exist
missing_input_result == "False"

-----------------------------------------------------------------------------
(* split_csv.py *)

SplitCols == <<"sku">>
SplitVals == [c \in {"sku"} |-> {<<"a">>, <<"b">>}]

\* a division that rounds down, not up
floor_div(n, k) == n \div k

\* math.ceil(total_rows / rows_per_file)
ceil_div(n, k) == IF n % k = 0 THEN n \div k ELSE (n \div k) + 1

Min(a, b) == IF a <= b THEN a ELSE b

\* df.iloc[start:end]
iloc(t, start, end) == [cols |-> t.cols, rows |-> SubSeq(t.rows, start + 1, end)]

Return(value) ==
    /\ ret' = value
    /\ pc' = "returned"

\* a zero-row table treated as an error
empty_table_is_error == "False"

\* what split_csv returns for a table of zero rows
empty_table_result == "True"

\* split_csv up to the loop: the argument check, the existence check, read_csv,
\* the zero-row return and makedirs
split_csv_load ==
    /\ job = "split_csv" /\ pc = "start"
    /\ stages' = IF rows_per_file <= 0 THEN stages ELSE Append(stages, "Loader")
    /\ UNCHANGED <<job, file, rows_per_file, exit_code, out_files, fn, arg, res,
                   clean_data, results_df>>
    /\ IF rows_per_file <= 0
       THEN /\ Return("False")
            /\ UNCHANGED <<df, loaded, out_dir, i>>
       ELSE IF ~path_exists(file)
       THEN /\ Return(missing_input_result)
            /\ UNCHANGED <<df, loaded, out_dir, i>>
       ELSE IF file.kind # "table"
       THEN /\ Return("False")
            /\ UNCHANGED <<df, loaded, out_dir, i>>
       ELSE /\ df' = read_csv(file)
            /\ loaded' = read_csv(file)
            /\ IF Len(file.rows) = 0
               THEN Return(empty_table_result) /\ UNCHANGED <<out_dir, i>>
               ELSE /\ out_dir' = TRUE
                    /\ i' = 0
                    /\ pc' = "chunks"
                    /\ UNCHANGED ret

num_files == ceil_div(Len(df.rows), rows_per_file)

\* the chunk that the loop's pass k writes
split_csv_chunk_of(k) ==
    LET start == k * rows_per_file
        end == Min(start + rows_per_file, Len(df.rows))
    IN  [kind |-> "chunk", num |-> k + 1, table |-> iloc(df, start, end)]

\* one pass of the loop: chunk i is cut and written to <prefix><i+1>.csv
split_csv_chunk ==
    /\ job = "split_csv" /\ pc = "chunks" /\ i < num_files
    /\ out_files' = {f \in out_files : ~(f.kind = "chunk" /\ f.num = i + 1)}
                        \cup {split_csv_chunk_of(i)}
    /\ i' = i + 1
    /\ stages' = stages \o <<"Rule Engine", "Writer">>
    /\ UNCHANGED <<job, pc, file, rows_per_file, df, loaded, ret, exit_code,
                   out_dir, fn, arg, res,
                   clean_data, results_df>>

\* the loop is over: return True
split_csv_done ==
    /\ job = "split_csv" /\ pc = "chunks" /\ i >= num_files
    /\ Return("True")
    /\ UNCHANGED <<job, file, rows_per_file, df, loaded, exit_code, out_dir,
                   out_files, i, stages, fn, arg, res, clean_data, results_df>>

-----------------------------------------------------------------------------
(* Tables in memory *)

\* df[c] = values: column c replaced in place, or appended as the last column
set_column(t, c, values) ==
    [cols |-> IF c \in ColSet(t) THEN t.cols ELSE Append(t.cols, c),
     rows |-> [r \in 1..Len(t.rows) |->
                 [d \in ColSet(t) \cup {c} |->
                     IF d = c THEN values[r] ELSE t.rows[r][d]]]]

\* df[c].apply(f): the column's values, in row order
column(t, c) == [r \in 1..Len(t.rows) |-> t.rows[r][c]]

\* a number held in a cell
num_cell(n) == <<ToString(n)>>

\* a loader that takes a file of zero bytes for a table of no columns and no rows
load_table_lenient(next_pc) ==
    /\ stages' = Append(stages, "Loader")
    /\ IF file.kind \notin {"table", "zero_bytes"}
       THEN /\ Return("False")
            /\ UNCHANGED <<df, loaded>>
       ELSE /\ df' = read_csv(file)
            /\ loaded' = read_csv(file)
            /\ pc' = next_pc
            /\ UNCHANGED ret

\* the step of a row-transform job that loads the file: the existence check and
\* read_csv, whose EmptyDataError and ParserError make the job return False
load_table(next_pc) ==
    /\ stages' = Append(stages, "Loader")
    /\ IF ~path_exists(file)
       THEN /\ Return(missing_input_result)
            /\ UNCHANGED <<df, loaded>>
       ELSE IF file.kind # "table"
       THEN /\ Return("False")
            /\ UNCHANGED <<df, loaded>>
       ELSE /\ df' = read_csv(file)
            /\ loaded' = read_csv(file)
            /\ pc' = next_pc
            /\ UNCHANGED ret

\* the step that writes df to the output workbook: makedirs, to_excel, return True
write_xlsx ==
    /\ stages' = Append(stages, "Writer")
    /\ out_dir' = TRUE
    /\ out_files' = out_files \cup {[kind |-> "xlsx", num |-> 0, table |-> df]}
    /\ Return("True")

-----------------------------------------------------------------------------
(* membership_assigner.py *)

FAMILY_INDICATOR_COLUMNS == <<"Spouse Name", "Child 1", "Child 2", "Child 3">>
OUTPUT_MEMBERSHIP_TYPE_COL == "Membership Type"
OUTPUT_MEMBERSHIP_PRICE_COL == "Membership Price"
INDIVIDUAL_LABEL == <<"I", "n", "d", "i", "v", "i", "d", "u", "a", "l">>
FAMILY_LABEL == <<"F", "a", "m", "i", "l", "y">>
INDIVIDUAL_PRICE == 50
FAMILY_PRICE == 80

\* an indicator test that forgets the strip(): a blank cell counts
family_value_unstripped(value) == notna(value) /\ value # EmptyStr

\* whether one indicator cell counts: pd.notna(value) and str(value).strip() != ""
family_value(value) == notna(value) /\ str_strip(value) # EmptyStr

\* has_any_family_value(row, columns): row is a row of a table with columns present
has_any_family_value(row, columns) ==
    \E k \in 1..Len(columns) :
        /\ columns[k] \in DOMAIN row
        /\ family_value(row[columns[k]])

\* assign_membership(row): (type, price)
assign_membership(row) ==
    IF has_any_family_value(row, FAMILY_INDICATOR_COLUMNS)
    THEN <<FAMILY_LABEL, num_cell(FAMILY_PRICE)>>
    ELSE <<INDIVIDUAL_LABEL, num_cell(INDIVIDUAL_PRICE)>>

\* the headers of the customer files given to the job: one other column, and
\* none, one or two of the indicator columns
MemberHeaders ==
    {<<"Email">>,
     <<"Email", "Spouse Name">>, <<"Email", "Child 1">>,
     <<"Email", "Child 2">>, <<"Email", "Child 3">>,
     <<"Email", "Spouse Name", "Child 1">>, <<"Email", "Child 2", "Child 3">>,
     <<"Email", "Spouse Name", "Child 3">>}

\* a name cell: empty, blank, or a name
NameTexts == {EmptyStr, <<" ">>, <<"a">>}
OtherTexts == {<<"x">>}

MemberVals == [c \in {"Email", "Spouse Name", "Child 1", "Child 2", "Child 3"} |->
                  IF c = "Email" THEN OtherTexts ELSE NameTexts]


process_file_load ==
    /\ job = "membership_assigner" /\ pc = "start"
    /\ load_table("rules")
    /\ UNCHANGED <<job, file, rows_per_file, exit_code, out_dir, out_files, i,
                   fn, arg, res,
                   clean_data, results_df>>

\* the loop over df.iterrows() and the two column assignments
process_file_rules ==
    /\ job = "membership_assigner" /\ pc = "rules"
    /\ LET types == [r \in 1..Len(df.rows) |-> assign_membership(df.rows[r])[1]]
           prices == [r \in 1..Len(df.rows) |-> assign_membership(df.rows[r])[2]]
       IN  df' = set_column(set_column(df, OUTPUT_MEMBERSHIP_TYPE_COL, types),
                            OUTPUT_MEMBERSHIP_PRICE_COL, prices)
    /\ stages' = Append(stages, "Rule Engine")
    /\ pc' = "write"
    /\ UNCHANGED <<job, file, rows_per_file, loaded, ret, exit_code, out_dir,
                   out_files, i, fn, arg, res,
                   clean_data, results_df>>

process_file_write ==
    /\ job = "membership_assigner" /\ pc = "write"
    /\ write_xlsx
    /\ UNCHANGED <<job, file, rows_per_file, df, loaded, exit_code, i, fn, arg, res,
                   clean_data, results_df>>

-----------------------------------------------------------------------------
(* name_formated.py *)

COLUMNS_TO_FORMAT ==
    <<"Last Name", "First Name", "Spouse Name", "Child 1", "Child 2", "Child 3">>

\* format_to_title_case(text)
format_to_title_case(text) ==
    IF isna(text) \/ text = EmptyStr THEN text ELSE str_title(text)

\* a loop that formats every column of the table, configured or not
format_every_column(t, k) ==
    [cols |-> t.cols,
     rows |-> [r \in 1..Len(t.rows) |->
                 [c \in ColSet(t) |-> format_to_title_case(t.rows[r][c])]]]

\* a loop that creates, empty, the configured columns the table lacks
RECURSIVE format_columns_creating(_, _)
format_columns_creating(t, k) ==
    IF k > Len(COLUMNS_TO_FORMAT) THEN t
    ELSE format_columns_creating(
            set_column(t, COLUMNS_TO_FORMAT[k],
                       [r \in 1..Len(t.rows) |->
                           IF COLUMNS_TO_FORMAT[k] \in ColSet(t)
                           THEN format_to_title_case(t.rows[r][COLUMNS_TO_FORMAT[k]])
                           ELSE NaN]),
            k + 1)

\* the loop over COLUMNS_TO_FORMAT from its k-th column on
RECURSIVE format_columns(_, _)
format_columns(t, k) ==
    IF k > Len(COLUMNS_TO_FORMAT) THEN t
    ELSE format_columns(
            IF COLUMNS_TO_FORMAT[k] \in ColSet(t)
            THEN set_column(t, COLUMNS_TO_FORMAT[k],
                            [r \in 1..Len(t.rows) |->
                                format_to_title_case(t.rows[r][COLUMNS_TO_FORMAT[k]])])
            ELSE t,
            k + 1)

NameHeaders ==
    {<<"Email">>,
     <<"Last Name", "Email">>,
     <<"Email", "Child 3">>,
     <<"Last Name", "First Name", "Email">>}

\* name cells: empty, mixed case, two words, two parts joined by a hyphen
FormatTexts == {EmptyStr, <<"a", "B">>, <<"a", " ", "b">>, <<"a", "-", "b">>}

NameVals == [c \in {"Email", "Last Name", "First Name", "Child 3"} |->
                IF c = "Email" THEN {<<"x">>, <<"y">>} ELSE FormatTexts]

process_csv_to_xlsx_load ==
    /\ job = "name_formated" /\ pc = "start"
    /\ load_table("rules")
    /\ UNCHANGED <<job, file, rows_per_file, exit_code, out_dir, out_files, i,
                   fn, arg, res,
                   clean_data, results_df>>

process_csv_to_xlsx_rules ==
    /\ job = "name_formated" /\ pc = "rules"
    /\ df' = format_columns(df, 1)
    /\ stages' = Append(stages, "Rule Engine")
    /\ pc' = "write"
    /\ UNCHANGED <<job, file, rows_per_file, loaded, ret, exit_code, out_dir,
                   out_files, i, fn, arg, res,
                   clean_data, results_df>>

process_csv_to_xlsx_write ==
    /\ job = "name_formated" /\ pc = "write"
    /\ write_xlsx
    /\ UNCHANGED <<job, file, rows_per_file, df, loaded, exit_code, i, fn, arg, res,
                   clean_data, results_df>>

-----------------------------------------------------------------------------
(* analyze_categories.py *)

COLUMN_TO_ANALYZE == "Company"

\* the largest number of categories for which the complete list is printed
FULL_LIST_LIMIT == 20

\* a .str accessor that every column has
str_accessor_always(values) == TRUE

\* whether Series.str exists: pandas gives a column of a table with rows whose
\* cells are all NaN the dtype float64, and .str then raises AttributeError
str_accessor_ok(values) ==
    Len(values) = 0 \/ \E r \in 1..Len(values) : notna(values[r])

\* a cleaning that forgets the last filter: blank cells are kept
clean_unstripped(values) ==
    LET kept(v) == notna(v) /\ v # EmptyStr
    IN  SelectSeq(values, kept)

\* dropna(), then [clean_data != ""], then [clean_data.str.strip() != ""]
clean(values) ==
    LET kept(v) == notna(v) /\ v # EmptyStr /\ str_strip(v) # EmptyStr
    IN  SelectSeq(values, kept)

\* Counter(data)[v]
counter(data, v) == Cardinality({r \in 1..Len(data) : data[r] = v})

\* the keys of Counter(data)
counter_keys(data) == {data[r] : r \in 1..Len(data)}

\* where key v was first seen
first_seen(data, v) == CHOOSE r \in 1..Len(data) :
                          data[r] = v /\ \A q \in 1..(r - 1) : data[q] # v

\* Counter(data).most_common(): the keys by count, largest first, keys of equal
\* count in the order they were first seen; a sequence of <<key, count>>
most_common(data) ==
    LET keys == counter_keys(data)
        before(v, w) == \/ counter(data, v) > counter(data, w)
                        \/ /\ counter(data, v) = counter(data, w)
                           /\ first_seen(data, v) < first_seen(data, w)
        rank(v) == 1 + Cardinality({w \in keys : before(w, v)})
    IN  [k \in 1..Cardinality(keys) |->
            LET v == CHOOSE w \in keys : rank(w) = k
            IN  <<v, counter(data, v)>>]

\* round((count / total) * 100, 2), in hundredths of a percent
percentage(count, total) == (2 * 10000 * count + total) \div (2 * total)

\* the results table: one row per category, in most_common order
results_table(data) ==
    LET mc == most_common(data)
    IN  [cols |-> IF Len(mc) = 0 THEN <<>> ELSE <<"Category", "Count", "Percentage">>,
         rows |-> [k \in 1..Len(mc) |->
                     [c \in {"Category", "Count", "Percentage"} |->
                        CASE c = "Category" -> mc[k][1]
                          [] c = "Count" -> num_cell(mc[k][2])
                          [] OTHER -> num_cell(percentage(mc[k][2], Len(data)))]]]

AnalyzeHeaders == {<<"Id", "Company">>, <<"Id">>}

\* category cells: empty, blank, and names that differ in case or in a trailing blank
CategoryTexts == {EmptyStr, <<" ">>, <<"A">>, <<"a">>, <<"A", " ">>}

AnalyzeVals == [c \in {"Id", "Company"} |->
                   IF c = "Id" THEN OtherTexts ELSE CategoryTexts]


\* the existence check, read_csv and the check that the column exists
analyze_categories_load ==
    /\ job = "analyze_categories" /\ pc = "start"
    /\ stages' = Append(stages, "Loader")
    /\ IF ~path_exists(file)
       THEN /\ Return(missing_input_result)
            /\ UNCHANGED <<df, loaded>>
       ELSE IF file.kind # "table"
       THEN /\ Return("False")
            /\ UNCHANGED <<df, loaded>>
       ELSE /\ df' = read_csv(file)
            /\ loaded' = read_csv(file)
            /\ IF COLUMN_TO_ANALYZE \notin ColSet(file)
               THEN Return("False")
               ELSE pc' = "rules" /\ UNCHANGED ret
    /\ UNCHANGED <<job, file, rows_per_file, exit_code, out_dir, out_files, i,
                   fn, arg, res, clean_data, results_df>>

\* the cleaning, the Counter and the results DataFrame
analyze_categories_rules ==
    /\ job = "analyze_categories" /\ pc = "rules"
    /\ stages' = Append(stages, "Rule Engine")
    /\ IF ~str_accessor_ok(column(df, COLUMN_TO_ANALYZE))
       THEN /\ Return("False")
            /\ UNCHANGED <<clean_data, results_df>>
       ELSE /\ clean_data' = clean(column(df, COLUMN_TO_ANALYZE))
            /\ results_df' = results_table(clean_data')
            /\ pc' = "report"
            /\ UNCHANGED ret
    /\ UNCHANGED <<job, file, rows_per_file, df, loaded, exit_code, out_dir,
                   out_files, i, fn, arg, res>>

\* the statistics and the top 10: most_common(1)[0] raises IndexError on an
\* empty Counter
analyze_categories_report ==
    /\ job = "analyze_categories" /\ pc = "report"
    /\ stages' = Append(stages, "Reporter")
    /\ IF Len(most_common(clean_data)) = 0
       THEN Return("False")
       ELSE pc' = "write" /\ UNCHANGED ret
    /\ UNCHANGED <<job, file, rows_per_file, df, loaded, exit_code, out_dir,
                   out_files, i, fn, arg, res, clean_data, results_df>>

\* makedirs, to_csv and to_excel of the results table
analyze_categories_write ==
    /\ job = "analyze_categories" /\ pc = "write"
    /\ stages' = Append(stages, "Writer")
    /\ out_dir' = TRUE
    /\ out_files' = out_files \cup {[kind |-> "csv", num |-> 0, table |-> results_df],
                                    [kind |-> "xlsx", num |-> 0, table |-> results_df]}
    /\ pc' = "full_list"
    /\ UNCHANGED <<job, file, rows_per_file, df, loaded, ret, exit_code, i,
                   fn, arg, res, clean_data, results_df>>

\* an end of the job that prints no complete list
analyze_categories_no_full_list ==
    /\ job = "analyze_categories" /\ pc = "full_list"
    /\ Return("True")
    /\ UNCHANGED <<job, file, rows_per_file, df, loaded, exit_code, out_dir,
                   out_files, i, stages, fn, arg, res, clean_data, results_df>>

\* the complete list, printed when there are at most 20 categories; return True
analyze_categories_full_list ==
    /\ job = "analyze_categories" /\ pc = "full_list"
    /\ stages' = IF Cardinality(counter_keys(clean_data)) <= FULL_LIST_LIMIT
                 THEN Append(stages, "Reporter")
                 ELSE stages
    /\ Return("True")
    /\ UNCHANGED <<job, file, rows_per_file, df, loaded, exit_code, out_dir,
                   out_files, i, fn, arg, res, clean_data, results_df>>

-----------------------------------------------------------------------------
(* product_normalizer.py *)

COL_PRODUCT_NAME == "name"
COL_ROOT_PATH == "categ_id"
COL_TAGS == "product_tag_ids"
COL_DEFAULT_CODE == "default_code"
ROOT_NAME == <<"A", "l", "l", " ", "/">>
TAG_TO_ASSIGN == <<"E", "m", "b", "a", "s", "s", "y", " ", "S", "t", "o", "r", "e">>
DEFAULT_CODE_TOKEN == <<"P", "R", "O">>

\* the characters rstrip(" -_#:/") removes
CODE_SEPARATORS == {" ", "-", "_", "#", ":", "/"}

\* is_all_uppercase(text): a letter of the pattern occurs, and text == text.upper()
is_all_uppercase(text) ==
    /\ \E k \in 1..Len(text) : text[k] \in LowerLetters \cup UpperLetters
    /\ text = str_upper(text)

\* normalize_name_to_title(name_value)
normalize_name_to_title(name_value) ==
    IF isna(name_value) \/ name_value = EmptyStr THEN name_value
    ELSE IF is_all_uppercase(name_value) THEN str_title(name_value)
    ELSE name_value

\* a root test that forgets the strip()
root_is_all_unstripped(root_value) ==
    IF isna(root_value) THEN FALSE
    ELSE startswith(str_lower(root_value), str_lower(ROOT_NAME))

\* root_is_all(root_value)
root_is_all(root_value) ==
    IF isna(root_value) THEN FALSE
    ELSE startswith(str_lower(str_strip(root_value)), str_lower(ROOT_NAME))

\* strip_default_code_suffix(code_value)
strip_default_code_suffix(code_value) ==
    IF isna(code_value) THEN code_value
    ELSE LET idx == str_find(code_value, DEFAULT_CODE_TOKEN)
             text == IF idx # -1 THEN SubSeq(code_value, 1, idx) ELSE code_value
         IN  str_rstrip(text, CODE_SEPARATORS)

\* rule 1: the product names
rule_name(t) ==
    IF COL_PRODUCT_NAME \in ColSet(t)
    THEN set_column(t, COL_PRODUCT_NAME,
                    [r \in 1..Len(t.rows) |->
                        normalize_name_to_title(t.rows[r][COL_PRODUCT_NAME])])
    ELSE t

\* rule 2: the tag column created when missing, and set where the mask holds
rule_tags(t) ==
    IF COL_ROOT_PATH \in ColSet(t)
    THEN LET with_tags == IF COL_TAGS \notin ColSet(t)
                          THEN set_column(t, COL_TAGS, [r \in 1..Len(t.rows) |-> EmptyStr])
                          ELSE t
         IN  set_column(with_tags, COL_TAGS,
                        [r \in 1..Len(t.rows) |->
                            IF root_is_all(t.rows[r][COL_ROOT_PATH])
                            THEN TAG_TO_ASSIGN
                            ELSE with_tags.rows[r][COL_TAGS]])
    ELSE t

\* whether column c of t has the dtype float64: the table has rows and every
\* cell of the column is NaN
is_float64(t, c) ==
    Len(t.rows) >= 1 /\ \A r \in 1..Len(t.rows) : isna(t.rows[r][c])

\* whether df.loc[mask_root_all, COL_TAGS] = TAG_TO_ASSIGN sets a string in a
\* float64 column: pandas before 3.0 upcasts the column, pandas 3.0 raises
\* TypeError
tags_need_upcast(t) ==
    /\ COL_ROOT_PATH \in ColSet(t)
    /\ COL_TAGS \in ColSet(t)
    /\ is_float64(t, COL_TAGS)
    /\ \E r \in 1..Len(t.rows) : root_is_all(t.rows[r][COL_ROOT_PATH])

\* rule 3: the product codes
rule_code(t) ==
    IF COL_DEFAULT_CODE \in ColSet(t)
    THEN set_column(t, COL_DEFAULT_CODE,
                    [r \in 1..Len(t.rows) |->
                        strip_default_code_suffix(t.rows[r][COL_DEFAULT_CODE])])
    ELSE t

ProductHeaders ==
    {<<"id", "name", "categ_id", "product_tag_ids", "default_code">>,
     <<"id", "categ_id", "product_tag_ids", "default_code">>,
     <<"id", "name", "product_tag_ids", "default_code">>,
     <<"id", "name", "categ_id", "default_code">>,
     <<"id", "name", "categ_id", "product_tag_ids">>,
     <<"id">>}

ProductVals ==
    [c \in {"id", "name", "categ_id", "product_tag_ids", "default_code"} |->
        CASE c = "id" -> OtherTexts
          [] c = "name" -> {EmptyStr, <<"A", "B">>}
          [] c = "categ_id" -> {EmptyStr,
                                <<"A", "l", "l", " ", "/", " ", "x">>,
                                <<" ", "A", "L", "L", " ", "/", "x">>,
                                <<"O", "t", "h", "e", "r">>}
          [] c = "product_tag_ids" -> {EmptyStr, <<"t">>}
          [] OTHER -> {EmptyStr, <<"A", "-", "P", "R", "O", "1">>}]


process_products_load ==
    /\ job = "product_normalizer" /\ pc = "start"
    /\ load_table("rules")
    /\ UNCHANGED <<job, file, rows_per_file, exit_code, out_dir, out_files, i,
                   fn, arg, res, clean_data, results_df>>

\* the three rules, in their order; the assignment of rule 2 may raise, which
\* the except clause turns into return False
process_products_rules ==
    /\ job = "product_normalizer" /\ pc = "rules"
    /\ stages' = Append(stages, "Rule Engine")
    /\ \/ /\ df' = rule_code(rule_tags(rule_name(df)))
          /\ pc' = "write"
          /\ UNCHANGED ret
       \/ /\ tags_need_upcast(rule_name(df))
          /\ df' = rule_name(df)
          /\ Return("False")
    /\ UNCHANGED <<job, file, rows_per_file, loaded, exit_code, out_dir,
                   out_files, i, fn, arg, res, clean_data, results_df>>

process_products_write ==
    /\ job = "product_normalizer" /\ pc = "write"
    /\ write_xlsx
    /\ UNCHANGED <<job, file, rows_per_file, df, loaded, exit_code, i, fn, arg, res,
                   clean_data, results_df>>

-----------------------------------------------------------------------------
(* main() of every script *)

\* main: sys.exit(1) when the job function returned False, exit code 0 otherwise
main_exit ==
    /\ pc = "returned"
    /\ exit_code' = IF ret = "True" THEN 0 ELSE 1
    /\ pc' = "exited"
    /\ UNCHANGED <<job, file, rows_per_file, df, loaded, ret, out_dir,
                   out_files, i, stages, fn, arg, res, clean_data, results_df>>

-----------------------------------------------------------------------------
(* The jobs *)

InitCommon ==
    /\ pc = "start"
    /\ df = NoTable
    /\ loaded = NoTable
    /\ ret = "none"
    /\ exit_code = -1
    /\ out_dir = FALSE
    /\ out_files = {}
    /\ i = 0
    /\ stages = <<>>
    /\ res = <<>>
    /\ clean_data = <<>>
    /\ results_df = NoTable

NoFunction ==
    /\ fn = "none"
    /\ arg = <<>>

InitSplit ==
    /\ job = "split_csv"
    /\ (file \in BadFiles \/ IsCsvFile(file, {SplitCols}, SplitVals, MaxSplitRows))
    /\ rows_per_file \in 0..MaxK

InitMember ==
    /\ job = "membership_assigner"
    /\ (file \in BadFiles \/ IsCsvFile(file, MemberHeaders, MemberVals, MaxRows))
    /\ rows_per_file = 0

InitName ==
    /\ job = "name_formated"
    /\ (file \in BadFiles \/ IsCsvFile(file, NameHeaders, NameVals, MaxRows))
    /\ rows_per_file = 0

InitAnalyze ==
    /\ job = "analyze_categories"
    /\ (file \in BadFiles \/ IsCsvFile(file, AnalyzeHeaders, AnalyzeVals, MaxAnalyzeRows))
    /\ rows_per_file = 0

InitProduct ==
    /\ job = "product_normalizer"
    /\ (file \in BadFiles \/ IsCsvFile(file, ProductHeaders, ProductVals, MaxRows))
    /\ rows_per_file = 0

Init ==
    /\ InitCommon
    /\ NoFunction
    /\ (InitSplit \/ InitMember \/ InitName \/ InitAnalyze \/ InitProduct)

Next ==
    \/ split_csv_load
    \/ split_csv_chunk
    \/ split_csv_done
    \/ process_file_load
    \/ process_file_rules
    \/ process_file_write
    \/ process_csv_to_xlsx_load
    \/ process_csv_to_xlsx_rules
    \/ process_csv_to_xlsx_write
    \/ analyze_categories_load
    \/ analyze_categories_rules
    \/ analyze_categories_report
    \/ analyze_categories_write
    \/ analyze_categories_full_list
    \/ process_products_load
    \/ process_products_rules
    \/ process_products_write
    \/ main_exit

Spec == Init /\ [][Next]_vars

-----------------------------------------------------------------------------
(* The cell functions on their own: one value in, one value out *)

\* the characters of the names: a lower-case and an upper-case letter, a blank,
\* a hyphen, and U+0130
NameChars == {"a", "B", " ", "-", IDot}

\* the characters of the product codes: the token's letters, one more letter and
\* two of the separators
CodeChars == {"P", "R", "O", "A", "-", "/"}

InitFn ==
    /\ InitCommon
    /\ job = "function"
    /\ file = AbsentFile
    /\ rows_per_file = 0
    /\ \/ /\ fn = "format_to_title_case"
          /\ arg \in {NaN} \cup Strs(NameChars, MaxNameLen)
       \/ /\ fn = "strip_default_code_suffix"
          /\ arg \in {NaN} \cup Strs(CodeChars, MaxCodeLen)

\* format_to_title_case(arg)
call_format_to_title_case ==
    /\ fn = "format_to_title_case" /\ pc = "start"
    /\ res' = format_to_title_case(arg)
    /\ pc' = "applied"
    /\ UNCHANGED <<job, file, rows_per_file, df, loaded, ret, exit_code, out_dir,
                   out_files, i, stages, fn, arg, clean_data, results_df>>

\* a second run on the output of the first: format_to_title_case(res)
recall_format_to_title_case ==
    /\ fn = "format_to_title_case" /\ pc = "applied"
    /\ arg' = res
    /\ res' = format_to_title_case(res)
    /\ pc' = "reapplied"
    /\ UNCHANGED <<job, file, rows_per_file, df, loaded, ret, exit_code, out_dir,
                   out_files, i, stages, fn, clean_data, results_df>>

\* strip_default_code_suffix(arg)
call_strip_default_code_suffix ==
    /\ fn = "strip_default_code_suffix" /\ pc = "start"
    /\ res' = strip_default_code_suffix(arg)
    /\ pc' = "applied"
    /\ UNCHANGED <<job, file, rows_per_file, df, loaded, ret, exit_code, out_dir,
                   out_files, i, stages, fn, arg, clean_data, results_df>>

NextFn ==
    \/ call_format_to_title_case
    \/ recall_format_to_title_case
    \/ call_strip_default_code_suffix

SpecFn == InitFn /\ [][NextFn]_vars

-----------------------------------------------------------------------------
(* Properties *)

\* the job function has returned
Finished == pc \in {"returned", "exited"}

\* a text that is not empty and not white space only
NotBlank(v) == \E k \in 1..Len(v) : v[k] \notin Whitespace

\* the workbook a row-transform job wrote
TheXlsx == (CHOOSE f \in out_files : f.kind = "xlsx").table

Chunks == {f \in out_files : f.kind = "chunk"}

ChunkTable(n) == (CHOOSE f \in Chunks : f.num = n).table

\* the rows of the chunk files 1..n, one file after the other
RECURSIVE ChunksJoined(_)
ChunksJoined(n) ==
    IF n = 0 THEN <<>> ELSE ChunksJoined(n - 1) \o ChunkTable(n).rows

\* C1: split_csv on N >= 1 rows with chunk size K >= 1 ends in success with
\* exactly the chunk files 1..ceil(N/K); chunk n holds the input rows at the
\* positions (n-1)*K .. min(n*K, N)-1 in their order, so it has 1..K rows, and
\* the chunks joined in file-number order are the input rows.
C1_SplitPartition ==
    (/\ job = "split_csv" /\ Finished
     /\ file.kind = "table" /\ Len(file.rows) >= 1 /\ rows_per_file >= 1)
    => LET N == Len(loaded.rows)
           K == rows_per_file
           m == CHOOSE q \in 1..N : q * K >= N /\ (q - 1) * K < N
       IN  /\ ret = "True"
           /\ out_files = Chunks
           /\ {f.num : f \in Chunks} = 1..m
           /\ Cardinality(Chunks) = m
           /\ \A n \in 1..m :
                LET t == ChunkTable(n)
                    lo == (n - 1) * K
                    hi == IF n * K <= N THEN n * K ELSE N
                IN  /\ t.cols = loaded.cols
                    /\ Len(t.rows) = hi - lo
                    /\ Len(t.rows) >= 1 /\ Len(t.rows) <= K
                    /\ \A j \in 1..Len(t.rows) : t.rows[j] = loaded.rows[lo + j]
           /\ ChunksJoined(m) = loaded.rows

\* five rows in chunks of two: three files, the last one of a single row
C1_Witness ==
    /\ job = "split_csv" /\ pc = "exited"
    /\ Len(loaded.rows) = 5 /\ rows_per_file = 2
    /\ Cardinality(Chunks) = 3
    /\ Len(ChunkTable(3).rows) = 1

\* the indicator columns of the claim, as a set
IndicatorSet == {"Spouse Name", "Child 1", "Child 2", "Child 3"}

\* row r of the loaded table has an indicator column that is present and holds
\* a value that is not null, not empty and not white space only
IsFamilyRow(r) ==
    \E c \in IndicatorSet \cap ColSet(loaded) :
        loaded.rows[r][c] # NaN /\ NotBlank(loaded.rows[r][c])

\* C2: every row gets the family label and price if and only if one of the
\* indicator columns is present and holds a non-null, non-blank value in that
\* row, and the individual label and price otherwise; a missing indicator
\* column never makes the job fail.
C2_MembershipRule ==
    (job = "membership_assigner" /\ file.kind = "table")
    => /\ pc \in {"write", "returned", "exited"}
          => /\ Len(df.rows) = Len(loaded.rows)
             /\ \A r \in 1..Len(df.rows) :
                  /\ df.rows[r][OUTPUT_MEMBERSHIP_TYPE_COL] =
                        IF IsFamilyRow(r) THEN FAMILY_LABEL ELSE INDIVIDUAL_LABEL
                  /\ df.rows[r][OUTPUT_MEMBERSHIP_PRICE_COL] =
                        IF IsFamilyRow(r)
                        THEN num_cell(FAMILY_PRICE) ELSE num_cell(INDIVIDUAL_PRICE)
       /\ Finished => ret = "True" /\ TheXlsx = df

\* a table without the column Child 1: a row with two indicators set is a
\* family, a row whose only indicator cell is blank is an individual
C2_Witness ==
    /\ job = "membership_assigner" /\ pc = "exited"
    /\ loaded.cols = <<"Email", "Spouse Name", "Child 3">>
    /\ Len(df.rows) = 2
    /\ loaded.rows[1]["Spouse Name"] = <<"a">> /\ loaded.rows[1]["Child 3"] = <<"a">>
    /\ loaded.rows[2]["Spouse Name"] = NaN /\ loaded.rows[2]["Child 3"] = <<" ">>
    /\ TheXlsx.rows[1][OUTPUT_MEMBERSHIP_TYPE_COL] = FAMILY_LABEL
    /\ TheXlsx.rows[2][OUTPUT_MEMBERSHIP_TYPE_COL] = INDIVIDUAL_LABEL

\* the rows of the loaded table whose value in the analysed column is not null,
\* not empty and not white space only
ValidRows ==
    {r \in 1..Len(loaded.rows) :
        /\ loaded.rows[r][COLUMN_TO_ANALYZE] # NaN
        /\ NotBlank(loaded.rows[r][COLUMN_TO_ANALYZE])}

\* the number in a Count cell
CountIn(row) == CHOOSE n \in 0..Len(loaded.rows) : row["Count"] = num_cell(n)

RECURSIVE SumCounts(_, _)
SumCounts(t, n) == IF n = 0 THEN 0 ELSE SumCounts(t, n - 1) + CountIn(t.rows[n])

\* table t tallies the valid rows
IsTally(t) ==
    /\ SumCounts(t, Len(t.rows)) = Cardinality(ValidRows)
    /\ \A r \in ValidRows :
         LET v == loaded.rows[r][COLUMN_TO_ANALYZE]
             at == {k \in 1..Len(t.rows) : t.rows[k]["Category"] = v}
         IN  /\ Cardinality(at) = 1
             /\ \A k \in at :
                  t.rows[k]["Count"] = num_cell(Cardinality(
                      {q \in ValidRows : loaded.rows[q][COLUMN_TO_ANALYZE] = v}))
    /\ \A k \in 1..Len(t.rows) :
         \E r \in ValidRows : loaded.rows[r][COLUMN_TO_ANALYZE] = t.rows[k]["Category"]

\* C3: in the results table the Count values add up to the number of rows whose
\* value is non-null, non-empty and not white space only, and every distinct
\* exact value is one category whose Count is its number of occurrences.
C3_CategoryTally ==
    (job = "analyze_categories")
    => /\ pc \in {"report", "write", "full_list"} => IsTally(results_df)
       /\ \A f \in out_files : f.table = results_df /\ IsTally(f.table)

\* "A" twice and "A " once: two categories, counted 2 and 1
C3_Witness ==
    /\ job = "analyze_categories" /\ pc = "exited" /\ ret = "True"
    /\ Len(results_df.rows) = 2
    /\ results_df.rows[1]["Category"] = <<"A">>
    /\ results_df.rows[1]["Count"] = num_cell(2)
    /\ results_df.rows[2]["Category"] = <<"A", " ">>
    /\ \E f \in out_files : f.kind = "csv"

\* the two characters are equal up to case
SameLetter(a, b) == ToUpperChar(a) = ToUpperChar(b)

\* v starts, case-insensitively, with the root prefix after w leading characters
StartsWithRootAt(v, w) ==
    /\ Len(v) >= w + Len(ROOT_NAME)
    /\ \A k \in 1..Len(ROOT_NAME) : SameLetter(v[w + k], ROOT_NAME[k])

\* v starts, case-insensitively, with the root prefix
StartsWithRoot(v) == v # NaN /\ StartsWithRootAt(v, 0)

\* v starts, case-insensitively, with the root prefix once its leading white
\* space is removed
StartsWithRootStripped(v) ==
    /\ v # NaN
    /\ \E w \in 0..Len(v) :
         /\ \A k \in 1..w : v[k] \in Whitespace
         /\ StartsWithRootAt(v, w)

\* the tag of row r before the rule: the loaded one, or "" in a created column
TagBefore(r) ==
    IF COL_TAGS \in ColSet(loaded) THEN loaded.rows[r][COL_TAGS] ELSE EmptyStr

TokenAt(v, k) ==
    /\ k + Len(DEFAULT_CODE_TOKEN) <= Len(v)
    /\ \A j \in 1..Len(DEFAULT_CODE_TOKEN) : v[k + j] = DEFAULT_CODE_TOKEN[j]

TokenOccurs(v) == \E k \in 0..Len(v) : TokenAt(v, k)

\* r is p with its trailing separator characters removed
IsRightStripped(r, p) ==
    /\ Len(r) <= Len(p)
    /\ r = SubSeq(p, 1, Len(r))
    /\ \A k \in (Len(r) + 1)..Len(p) : p[k] \in {" ", "-", "_", "#", ":", "/"}
    /\ Len(r) > 0 => r[Len(r)] \notin {" ", "-", "_", "#", ":", "/"}

\* r is the reference result for the product code v
IsReferenceCode(r, v) ==
    IF TokenOccurs(v)
    THEN \E k \in 0..Len(v) :
            /\ TokenAt(v, k)
            /\ \A m \in 0..(k - 1) : ~TokenAt(v, m)
            /\ IsRightStripped(r, SubSeq(v, 1, k))
    ELSE r = v

\* C4: for every non-null product code v, strip_default_code_suffix(v) is the
\* part of v before the first occurrence of the token with its trailing
\* separators removed when the token occurs in v, and v itself when it does not.
C4_CodeTruncation ==
    (fn = "strip_default_code_suffix" /\ pc = "applied" /\ arg # NaN)
    => IsReferenceCode(res, arg)

\* the k-th character of s as str.title() writes it
TitleCharAt(s, k) ==
    IF k > 1 /\ IsCased(s[k - 1]) THEN ToLowerFull(s[k]) ELSE ToTitleFull(s[k])

\* s in title case: a letter that starts s or follows a character that is not
\* a letter is upper-cased, a letter that follows a letter is lower-cased
TitleCased(s) == Concat([k \in 1..Len(s) |-> TitleCharAt(s, k)])

\* the k-th character of s when only white space delimits words; rest says how
\* the other letters of a word are written: "lower" or "kept"
WordCharAt(s, k, rest) ==
    IF k = 1 \/ s[k - 1] \in Whitespace THEN ToTitleFull(s[k])
    ELSE IF rest = "lower" THEN ToLowerFull(s[k])
    ELSE <<s[k]>>

WordCased(s, rest) == Concat([k \in 1..Len(s) |-> WordCharAt(s, k, rest)])

\* the cells of the configured columns that the table holds
FormattedCells ==
    {<<r, c>> \in (1..Len(loaded.rows)) \X ColSet(loaded) :
        \E k \in 1..Len(COLUMNS_TO_FORMAT) : COLUMNS_TO_FORMAT[k] = c}

\* C6 as amended: in every configured column the table holds, each non-null,
\* non-empty value is replaced by the value in which every letter that starts
\* the value or follows a character that is not a letter (white space or any
\* other) is upper-cased and every letter that follows a letter is
\* lower-cased; null and empty values are unchanged.
C6_TitleCaseByLetterRuns ==
    (/\ job = "name_formated" /\ file.kind = "table"
     /\ pc \in {"write", "returned", "exited"})
    => /\ Len(df.rows) = Len(loaded.rows)
       /\ \A cell \in FormattedCells :
            LET v == loaded.rows[cell[1]][cell[2]]
            IN  df.rows[cell[1]][cell[2]] =
                    IF v = NaN \/ v = EmptyStr THEN v ELSE TitleCased(v)
       /\ Finished => ret = "True" /\ TheXlsx = df

\* C6 as stated: each non-null, non-empty value is replaced by the value in
\* which the first letter of each white-space-delimited word is capitalized
\* (the other letters lower-cased or kept); null and empty values are unchanged.
C6_TitleCaseByWords ==
    (job = "name_formated" /\ pc \in {"write", "returned", "exited"})
    => \A cell \in FormattedCells :
            LET v == loaded.rows[cell[1]][cell[2]]
            IN  IF v = NaN \/ v = EmptyStr
                THEN df.rows[cell[1]][cell[2]] = v
                ELSE df.rows[cell[1]][cell[2]] \in
                        {WordCased(v, "lower"), WordCased(v, "kept")}

\* "a-b" is written "A-B", "a b" is written "A B", and a null stays null
C6_Witness ==
    /\ job = "name_formated" /\ pc = "exited"
    /\ loaded.cols = <<"Last Name", "First Name", "Email">>
    /\ Len(loaded.rows) = 2
    /\ loaded.rows[1]["Last Name"] = <<"a", "-", "b">>
    /\ TheXlsx.rows[1]["Last Name"] = <<"A", "-", "B">>
    /\ loaded.rows[1]["First Name"] = <<"a", " ", "b">>
    /\ TheXlsx.rows[1]["First Name"] = <<"A", " ", "B">>
    /\ loaded.rows[2]["Last Name"] = NaN
    /\ TheXlsx.rows[2]["Last Name"] = NaN

\* C7: format_to_title_case(format_to_title_case(x)) = format_to_title_case(x)
\* for every value x: a second run returns its input.
C7_TitleCaseIdempotent ==
    (fn = "format_to_title_case" /\ pc = "reapplied") => res = arg

\* the columns a job's rules write
RuleTargets ==
    CASE job = "membership_assigner" ->
            {OUTPUT_MEMBERSHIP_TYPE_COL, OUTPUT_MEMBERSHIP_PRICE_COL}
      [] job = "name_formated" ->
            {COLUMNS_TO_FORMAT[k] : k \in 1..Len(COLUMNS_TO_FORMAT)}
      [] job = "product_normalizer" ->
            {COL_PRODUCT_NAME, COL_TAGS, COL_DEFAULT_CODE}
      [] OTHER -> {}

RowTransformJobs == {"membership_assigner", "name_formated", "product_normalizer"}

\* C8: the table a row-transform job writes has the rows of the loaded table,
\* as many and in the same order, and every column that no rule of the job
\* writes holds in every row the value it held in the input.
C8_RowsAndOtherColumnsKept ==
    (job \in RowTransformJobs /\ Finished /\ ret = "True")
    => /\ Cardinality(out_files) = 1
       /\ Len(TheXlsx.rows) = Len(loaded.rows)
       /\ \A c \in ColSet(loaded) \ RuleTargets :
            /\ c \in ColSet(TheXlsx)
            /\ \A r \in 1..Len(loaded.rows) : TheXlsx.rows[r][c] = loaded.rows[r][c]

\* two rows that differ in a column outside the rules, written in their order
C8_Witness ==
    /\ job = "name_formated" /\ pc = "exited"
    /\ Len(loaded.rows) = 2
    /\ "Last Name" \in ColSet(loaded)
    /\ loaded.rows[1]["Email"] = <<"y">> /\ loaded.rows[2]["Email"] = <<"x">>
    /\ TheXlsx.rows[1]["Email"] = <<"y">> /\ TheXlsx.rows[2]["Email"] = <<"x">>
    /\ TheXlsx.rows[1]["Last Name"] # loaded.rows[1]["Last Name"]

\* the input file exists and holds a header row and no data row
HeaderOnly == file.kind = "table" /\ Len(file.rows) = 0

\* the job ended in failure
Failed == ret = "False" /\ (pc = "exited" => exit_code = 1)

\* the job ended in success
Succeeded == ret = "True" /\ (pc = "exited" => exit_code = 0)

\* C9 as amended: an input file of zero bytes makes each of the five jobs
\* return False (exit code 1) with nothing written; an input of a header row
\* only does not: split_csv, the Membership Assigner and the Name Formatter
\* return True (exit code 0) on it.
C9_ZeroBytesAborts ==
    Finished
    => /\ file.kind = "zero_bytes" => Failed /\ out_files = {}
       /\ (/\ HeaderOnly
           /\ \/ job = "split_csv" /\ rows_per_file >= 1
              \/ job \in {"membership_assigner", "name_formated"})
          => Succeeded

\* C9 as stated: an input file that exists and holds no data rows (zero bytes,
\* or a header row only) makes every job return False (exit code 1).
C9_EmptyInputAborts ==
    (Finished /\ (file.kind = "zero_bytes" \/ HeaderOnly)) => Failed

\* the Name Formatter on a file of zero bytes: exit code 1, nothing written
C9_Witness ==
    /\ job = "name_formated" /\ pc = "exited"
    /\ file.kind = "zero_bytes"
    /\ exit_code = 1 /\ out_files = {} /\ ~out_dir

\* C10: split_csv on an input that loads as a table of zero rows writes no
\* chunk file and ends in success (returns True, exit code 0).
C10_SplitZeroRows ==
    (job = "split_csv" /\ Finished /\ HeaderOnly /\ rows_per_file >= 1)
    => Succeeded /\ out_files = {}

\* a header-only file, split: exit code 0 and no file
C10_Witness ==
    /\ job = "split_csv" /\ pc = "exited"
    /\ HeaderOnly /\ rows_per_file >= 1
    /\ loaded.cols = SplitCols
    /\ exit_code = 0 /\ out_files = {}

\* the columns a job's configuration names
ConfiguredColumns ==
    CASE job = "membership_assigner" -> IndicatorSet
      [] job = "name_formated" ->
            {COLUMNS_TO_FORMAT[k] : k \in 1..Len(COLUMNS_TO_FORMAT)}
      [] job = "product_normalizer" ->
            {COL_PRODUCT_NAME, COL_ROOT_PATH, COL_TAGS, COL_DEFAULT_CODE}
      [] job = "analyze_categories" -> {COLUMN_TO_ANALYZE}
      [] OTHER -> {}

\* the configured columns the loaded table lacks
AbsentColumns == ConfiguredColumns \ ColSet(loaded)

\* a table was loaded and lacks a configured column, and the job has returned
AbsentColumnRun == Finished /\ file.kind = "table" /\ AbsentColumns # {}

\* the columns a job may create: the two membership columns, and the tag
\* column when the category-path column exists
CreatedColumns ==
    CASE job = "membership_assigner" ->
            {OUTPUT_MEMBERSHIP_TYPE_COL, OUTPUT_MEMBERSHIP_PRICE_COL}
      [] job = "product_normalizer" ->
            IF COL_ROOT_PATH \in ColSet(loaded) THEN {COL_TAGS} ELSE {}
      [] OTHER -> {}

\* the rule steps of the configured columns that exist have run on the
\* written workbook
PresentStepsRan ==
    LET t == TheXlsx
        R == 1..Len(loaded.rows)
        has(c) == c \in ColSet(loaded)
    IN  CASE job = "name_formated" ->
                \A c \in ConfiguredColumns \cap ColSet(loaded) : \A r \in R :
                    t.rows[r][c] = format_to_title_case(loaded.rows[r][c])
          [] job = "membership_assigner" ->
                \A r \in R :
                    t.rows[r][OUTPUT_MEMBERSHIP_TYPE_COL] =
                        IF IsFamilyRow(r) THEN FAMILY_LABEL ELSE INDIVIDUAL_LABEL
          [] job = "product_normalizer" ->
                /\ has(COL_PRODUCT_NAME) => \A r \in R :
                      t.rows[r][COL_PRODUCT_NAME] =
                          normalize_name_to_title(loaded.rows[r][COL_PRODUCT_NAME])
                /\ has(COL_ROOT_PATH) => \A r \in R :
                      StartsWithRootStripped(loaded.rows[r][COL_ROOT_PATH])
                      => t.rows[r][COL_TAGS] = TAG_TO_ASSIGN
                /\ has(COL_DEFAULT_CODE) => \A r \in R :
                      t.rows[r][COL_DEFAULT_CODE] =
                          strip_default_code_suffix(loaded.rows[r][COL_DEFAULT_CODE])
          [] OTHER -> TRUE

\* C11 as amended: in the Membership Assigner, the Name Formatter and the
\* Product Normalizer a configured column that the loaded table lacks only
\* skips its own rule step: the column is not created (but for the tag column,
\* which is created when the category-path column exists), the steps of the
\* columns that exist run, and the job returns True with its workbook written,
\* unless the tag assignment itself raises on an all-empty tag column. The
\* Category Analyzer returns False (exit code 1) when its column is absent,
\* with nothing written and no directory created.
C11_AbsentColumnSkipped ==
    AbsentColumnRun
    => /\ job \in RowTransformJobs
          => \/ /\ job = "product_normalizer"
                /\ tags_need_upcast(rule_name(loaded))
                /\ Failed /\ out_files = {}
             \/ /\ Succeeded
                /\ Cardinality(out_files) = 1
                /\ ColSet(TheXlsx) = ColSet(loaded) \cup CreatedColumns
                /\ PresentStepsRan
       /\ job = "analyze_categories" => Failed /\ out_files = {} /\ ~out_dir

\* C11 as stated: whenever a configured column is absent from the loaded
\* table, the job ends in success with its output written.
C11_AbsentColumnNonFatal ==
    AbsentColumnRun => Succeeded /\ out_files # {}

\* the Product Normalizer on a table without the name column: exit code 0, no
\* name column made, a matching row tagged and its code truncated
C11_Witness ==
    /\ job = "product_normalizer" /\ pc = "exited" /\ exit_code = 0
    /\ AbsentColumns = {COL_PRODUCT_NAME}
    /\ Len(loaded.rows) >= 1
    /\ COL_PRODUCT_NAME \notin ColSet(TheXlsx)
    /\ StartsWithRootStripped(loaded.rows[1][COL_ROOT_PATH])
    /\ TheXlsx.rows[1][COL_TAGS] = TAG_TO_ASSIGN
    /\ TokenOccurs(loaded.rows[1][COL_DEFAULT_CODE])
    /\ TheXlsx.rows[1][COL_DEFAULT_CODE] # loaded.rows[1][COL_DEFAULT_CODE]

\* C12: in each of the five jobs, when the input path does not exist the job
\* function returns False and the process exits with code 1, no output file is
\* written and no output directory is created.
C12_InputAbsent ==
    (Finished /\ ~path_exists(file))
    => /\ Failed
       /\ out_files = {}
       /\ ~out_dir

\* the Category Analyzer on a path that does not exist: exit code 1, no file,
\* no directory
C12_Witness ==
    /\ job = "analyze_categories" /\ pc = "exited"
    /\ ~path_exists(file)
    /\ ret = "False" /\ exit_code = 1
    /\ out_files = {} /\ ~out_dir

\* s is an initial part of t
IsPrefix(s, t) == Len(s) <= Len(t) /\ \A k \in 1..Len(s) : s[k] = t[k]

\* n times the slicing of a chunk and its writing
RECURSIVE SliceAndWrite(_)
SliceAndWrite(n) ==
    IF n = 0 THEN <<>> ELSE SliceAndWrite(n - 1) \o <<"Rule Engine", "Writer">>

\* the stages of a whole run of the Category Analyzer
AnalyzerStages ==
    IF Cardinality(counter_keys(clean_data)) <= FULL_LIST_LIMIT
    THEN <<"Loader", "Rule Engine", "Reporter", "Writer", "Reporter">>
    ELSE <<"Loader", "Rule Engine", "Reporter", "Writer">>

\* the place of a stage in the stated order
StageRank(st) ==
    CASE st = "Loader" -> 1
      [] st = "Rule Engine" -> 2
      [] st = "Reporter" -> 3
      [] OTHER -> 4

\* C13 as amended: the Membership Assigner, the Name Formatter and the Product
\* Normalizer run Loader, Rule Engine, Writer in this order, each once. The
\* Category Analyzer runs Loader, Rule Engine, Reporter (statistics, top 10),
\* Writer and then, when there are at most 20 categories, the Reporter again
\* (the complete list) after both output files are written. split_csv runs the
\* Loader and then, chunk by chunk, slices a chunk (Rule Engine) and writes it
\* (Writer). A run that fails stops within this order.
C13_StageOrderOfTheCode ==
    /\ job \in RowTransformJobs
       => /\ IsPrefix(stages, <<"Loader", "Rule Engine", "Writer">>)
          /\ (Finished /\ ret = "True") => Len(stages) = 3
    /\ job = "analyze_categories"
       => /\ IsPrefix(stages, AnalyzerStages)
          /\ (Finished /\ ret = "True") => stages = AnalyzerStages
    /\ job = "split_csv"
       => \/ stages = <<>> /\ (pc = "start" \/ rows_per_file <= 0)
          \/ stages = <<"Loader">> \o SliceAndWrite(i)

\* C13 as stated: the stages of a run occur strictly in the order Loader, Rule
\* Engine, Reporter, Writer, and only the Category Analyzer has a Reporter.
C13_StrictStageOrder ==
    /\ \A a, b \in 1..Len(stages) :
          a < b => StageRank(stages[a]) < StageRank(stages[b])
    /\ job # "analyze_categories"
       => \A a \in 1..Len(stages) : stages[a] # "Reporter"

\* a run of the Category Analyzer that printed the complete list after it
\* wrote its two files
C13_Witness ==
    /\ job = "analyze_categories" /\ pc = "exited" /\ exit_code = 0
    /\ Cardinality(out_files) = 2
    /\ Cardinality(counter_keys(clean_data)) >= 2
    /\ stages = <<"Loader", "Rule Engine", "Reporter", "Writer", "Reporter">>

\* the analyzed column exists in the loaded table and none of its cells holds
\* a valid value: every cell is null, empty or white space only
NoValidValues ==
    /\ job = "analyze_categories" /\ file.kind = "table"
    /\ COLUMN_TO_ANALYZE \in ColSet(loaded)
    /\ \A r \in 1..Len(loaded.rows) :
          \/ loaded.rows[r][COLUMN_TO_ANALYZE] = NaN
          \/ ~NotBlank(loaded.rows[r][COLUMN_TO_ANALYZE])

\* the table has rows and every cell of the analyzed column is null
AllNull ==
    /\ Len(loaded.rows) >= 1
    /\ \A r \in 1..Len(loaded.rows) : loaded.rows[r][COLUMN_TO_ANALYZE] = NaN

\* the job failed with nothing written and no directory created
FailedBeforeWriter ==
    /\ Failed
    /\ out_files = {} /\ ~out_dir
    /\ \A k \in 1..Len(stages) : stages[k] # "Writer"

\* C14 as amended: when the analyzed column exists and holds no valid value,
\* analyze_categories returns False (exit code 1) before the Writer runs, with
\* no file written and no directory created. When the table has rows and
\* every cell of the column is null, the failure is in the cleaning (the
\* column has no .str accessor) and the Reporter never runs; otherwise (no
\* rows, or a blank cell) the tally is empty and the failure is the lookup of
\* the most frequent category in the Reporter.
C14_NoValidValuesFails ==
    (Finished /\ NoValidValues)
    => /\ FailedBeforeWriter
       /\ stages = IF AllNull THEN <<"Loader", "Rule Engine">>
                   ELSE <<"Loader", "Rule Engine", "Reporter">>
       /\ ~AllNull => clean_data = <<>>

\* C14 as stated: when the analyzed column exists and holds no valid value,
\* the job fails before the Writer, and it fails at the lookup of the most
\* frequent category, which the Reporter makes on the empty tally.
C14_FailsAtLookup ==
    (Finished /\ NoValidValues)
    => /\ FailedBeforeWriter
       /\ stages = <<"Loader", "Rule Engine", "Reporter">>

\* a null cell and a blank cell: the tally is empty, the Reporter fails, exit
\* code 1 and nothing written
C14_Witness ==
    /\ NoValidValues /\ pc = "exited" /\ exit_code = 1
    /\ Len(loaded.rows) = 2
    /\ loaded.rows[1][COLUMN_TO_ANALYZE] = NaN
    /\ loaded.rows[2][COLUMN_TO_ANALYZE] = <<" ">>
    /\ clean_data = <<>>
    /\ stages = <<"Loader", "Rule Engine", "Reporter">>
    /\ out_files = {} /\ ~out_dir

====
